---------------------------- MODULE Spec2Model ----------------------------
(***************************************************************************)
(* Trade lifecycle and risk engine of the automated trading agent:         *)
(* risk.py (position sizer, R multiple, DailyRiskManager), executor.py     *)
(* (OpenTrade, entries, monitor_trade) and main.py (the scheduled         *)
(* routines that drive them).                                              *)
(*                                                                         *)
(* Units.  Prices are integers in cents (the broker quote is round(.,2)).  *)
(* Account balance, risk_amount and PnL are integers in cents.  R values   *)
(* are integers in hundredths (calculate_r rounds to 2 decimals).          *)
(* Quantities are whole shares.  round(x, 2) is modelled as rounding the   *)
(* exact value to the nearest integer of the unit, ties to even; int(x)    *)
(* as truncation toward zero.                                              *)
(* Quotients are computed exactly: the error of binary floating point is   *)
(* not modelled.                                                           *)
(***************************************************************************)
EXTENDS Integers, Sequences, FiniteSets, TLC

VARIABLES
    risk_manager,     \* main.py:49   the DailyRiskManager singleton
    open_trades,      \* main.py:50   list of OpenTrade
    daily_stocks,     \* main.py:51   today's universe
    running,          \* main.py:386  the polling loop is alive (no uncaught exception)
    pc,               \* where scan_routine stands: "idle" between two runs,
                      \* "monitor" inside the loop of _monitor_open_trades
    cursor,           \* main.py:137  index of the next trade the loop monitors
    trades_to_remove, \* main.py:135  order ids of the trades closed in this pass
    clock,            \* the exchange clock behind is_market_open()
    order_log,        \* broker: bracket orders accepted, index = order id
    monitor_log,      \* the monitor_trade call of the last step, if it made one
    closed_log,       \* the closings of the last step: sell, record, governor call
    sizing_log,       \* the calculate_position_size calls of the last step
    scan_log,         \* what the scan saw and did in the last step
    gov_call          \* the last call made on the governor object

vars == <<risk_manager, open_trades, daily_stocks, running, pc, cursor,
          trades_to_remove, clock, order_log, monitor_log, closed_log,
          sizing_log, scan_log, gov_call>>

-----------------------------------------------------------------------------
(* Program constants (config.py is imported by every module; the values   *)
(* are the ones the sources document).                                     *)

\* risk per trade, in percent of the balance
RISK_PER_TRADE == 3

MAX_DAILY_LOSSES == 2

STRATEGY2_LEVERAGE == 2

\* conservative target and trail level, in halves of R (R2 and R0.5)
S1_TARGET_HALF_R == 4

S1_TRAIL_TO_HALF_R == 1

\* mean-reversion second target, in R
TP2_R == 3

\* mean-reversion first target, in R
TP1_R == 1

\* trailing step of the mean-reversion strategy, in 1/1000 of the entry price
TRAIL_STEP_PER_MILLE == 5

-----------------------------------------------------------------------------
(* Bounds of the model.                                                    *)

\* bracket orders the broker accepts in one run
MaxOrders == 2

\* calls made on the governor object in the governor's own specification
MaxCalls == 5
MaxCapacityOrders == 4

-----------------------------------------------------------------------------
(* Arithmetic helpers.                                                     *)

Max(a, b) == IF a >= b THEN a ELSE b

\* int(n / d) for d > 0: truncation toward zero
TruncDiv(n, d) == IF n >= 0 THEN n \div d ELSE -((-n) \div d)

\* round(n / d) to the nearest integer, ties to even, for d > 0
RoundDiv(n, d) ==
    LET q == n \div d
        r == n % d
    IN  IF 2 * r < d THEN q
        ELSE IF 2 * r > d THEN q + 1
        ELSE IF q % 2 = 0 THEN q ELSE q + 1

-----------------------------------------------------------------------------
(* risk.py: position sizing.                                               *)

\* The dict calculate_position_size returns, or the ValueError it raises.
\* balance in cents, prices in cents; risk_amount in cents.
\* faulty variant: the share count rounded to the nearest instead of cut
calculate_position_size_rounded(balance, entry_price, stop_loss, use_leverage) ==
    IF entry_price <= 0 \/ stop_loss <= 0 \/ stop_loss >= entry_price
    THEN [error |-> "ValueError"]
    ELSE
        LET leverage == IF use_leverage THEN STRATEGY2_LEVERAGE ELSE 1
            raw == RoundDiv(balance * RISK_PER_TRADE * leverage,
                            100 * (entry_price - stop_loss))
        IN  [error |-> "none",
             quantity |-> IF raw <= 0 THEN 1 ELSE raw,
             risk_amount |-> RoundDiv(balance * RISK_PER_TRADE, 100),
             risk_pct |-> RISK_PER_TRADE,
             leverage |-> leverage]

\* faulty variant: the leverage applied whatever use_leverage says
calculate_position_size_always_leveraged(balance, entry_price, stop_loss, use_leverage) ==
    IF entry_price <= 0 \/ stop_loss <= 0 \/ stop_loss >= entry_price
    THEN [error |-> "ValueError"]
    ELSE
        LET leverage == STRATEGY2_LEVERAGE
            raw == TruncDiv(balance * RISK_PER_TRADE * leverage,
                            100 * (entry_price - stop_loss))
        IN  [error |-> "none",
             quantity |-> IF raw <= 0 THEN 1 ELSE raw,
             risk_amount |-> RoundDiv(balance * RISK_PER_TRADE, 100),
             risk_pct |-> RISK_PER_TRADE,
             leverage |-> leverage]

calculate_position_size(balance, entry_price, stop_loss, use_leverage) ==
    IF entry_price <= 0 \/ stop_loss <= 0 THEN [error |-> "ValueError"]
    ELSE IF stop_loss >= entry_price THEN [error |-> "ValueError"]
    ELSE
        LET leverage       == IF use_leverage THEN STRATEGY2_LEVERAGE ELSE 1
            \* risk_amount * leverage / risk_per_share, the risk amount being
            \* balance * RISK_PER_TRADE / 100 before any rounding
            raw            == TruncDiv(balance * RISK_PER_TRADE * leverage,
                                       100 * (entry_price - stop_loss))
            quantity       == IF raw <= 0 THEN 1 ELSE raw
        IN  [error       |-> "none",
             quantity    |-> quantity,
             risk_amount |-> RoundDiv(balance * RISK_PER_TRADE, 100),
             risk_pct    |-> RISK_PER_TRADE,
             leverage    |-> leverage]

\* R achieved, in hundredths
calculate_r(entry_price, exit_price, stop_loss) ==
    LET risk_per_share == entry_price - stop_loss
    IN  IF risk_per_share <= 0 THEN 0
        ELSE RoundDiv(100 * (exit_price - entry_price), risk_per_share)

-----------------------------------------------------------------------------
(* risk.py: DailyRiskManager.                                              *)

\* __init__
DailyRiskManager ==
    [daily_losses |-> 0, daily_wins |-> 0, daily_pnl |-> 0, daily_r |-> 0,
     is_stopped |-> FALSE]

\* faulty variant: a win counted without its PnL and R
record_win_without_totals(rm, pnl, r_achieved) ==
    [rm EXCEPT !.daily_wins = @ + 1]

\* faulty variant: a win lifts the halt
record_win_clears_halt(rm, pnl, r_achieved) ==
    [rm EXCEPT !.daily_wins = @ + 1,
               !.daily_pnl  = @ + pnl,
               !.daily_r    = @ + r_achieved,
               !.is_stopped = FALSE]

record_win(rm, pnl, r_achieved) ==
    [rm EXCEPT !.daily_wins = @ + 1,
               !.daily_pnl  = @ + pnl,
               !.daily_r    = @ + r_achieved]

\* faulty variant: the halt comes one loss after the limit
record_loss_halts_late(rm, pnl, r_achieved) ==
    LET losses == rm.daily_losses + 1
    IN  [rm EXCEPT !.daily_losses = losses,
                   !.daily_pnl    = @ + pnl,
                   !.daily_r      = @ + r_achieved,
                   !.is_stopped   = IF losses > MAX_DAILY_LOSSES THEN TRUE ELSE @]

\* the governor after record_loss
record_loss(rm, pnl, r_achieved) ==
    LET losses == rm.daily_losses + 1
    IN  [rm EXCEPT !.daily_losses = losses,
                   !.daily_pnl    = @ + pnl,
                   !.daily_r      = @ + r_achieved,
                   !.is_stopped   = IF losses >= MAX_DAILY_LOSSES THEN TRUE ELSE @]

\* faulty variant: true only for the loss that reaches the limit
record_loss_returns_at_limit(rm) == rm.daily_losses + 1 = MAX_DAILY_LOSSES

\* the value record_loss returns
record_loss_returns(rm) == rm.daily_losses + 1 >= MAX_DAILY_LOSSES

can_trade(rm) == ~rm.is_stopped

\* faulty variant: lifts the halt and keeps the day's counters
reset_keeps_counters(rm) == [rm EXCEPT !.is_stopped = FALSE]

reset(rm) == DailyRiskManager

get_summary(rm) ==
    [total_trades |-> rm.daily_wins + rm.daily_losses,
     wins         |-> rm.daily_wins,
     losses       |-> rm.daily_losses,
     is_stopped   |-> rm.is_stopped]

-----------------------------------------------------------------------------
(* executor.py: monitoring one trade.                                      *)

\* strategy_meanrev.update_trailing_stop: moves up only.  Both arguments
\* of max are on the cent grid, so round(., 2) leaves the value as it is.
update_trailing_stop(current_price, current_stop, trail_step) ==
    Max(current_price - trail_step, current_stop)

\* faulty variant: a missing quote compared with the levels like a price
monitor_trade_unquoted(trade, current_price) ==
    LET r_current == calculate_r(trade.entry_price, current_price, trade.stop_loss)
        new_stop  == update_trailing_stop(current_price, trade.stop_loss,
                                          trade.trail_step)
    IN  IF current_price <= trade.stop_loss
        THEN [status |-> "stopped", price |-> current_price, r |-> r_current,
              new_stop |-> trade.stop_loss]
        ELSE IF current_price >= trade.target
        THEN [status |-> "target", price |-> current_price, r |-> r_current,
              new_stop |-> trade.stop_loss]
        ELSE IF trade.strategy = "conservative" /\ r_current >= 100
                /\ current_price > trade.trail_stop
        THEN [status |-> "trail_updated", price |-> current_price, r |-> r_current,
              new_stop |-> trade.trail_stop]
        ELSE IF trade.strategy = "meanrev" /\ trade.trail_step > 0
                /\ new_stop > trade.stop_loss
        THEN [status |-> "trail_updated", price |-> current_price, r |-> r_current,
              new_stop |-> new_stop]
        ELSE [status |-> "open", price |-> current_price, r |-> r_current,
              new_stop |-> trade.stop_loss]

\* faulty variant: the target tested before the stop
monitor_trade_target_first(trade, current_price) ==
    LET r_current == calculate_r(trade.entry_price, current_price, trade.stop_loss)
        new_stop  == update_trailing_stop(current_price, trade.stop_loss,
                                          trade.trail_step)
    IN  IF current_price <= 0
        THEN [status |-> "open", price |-> 0, r |-> 0, new_stop |-> trade.stop_loss]
        ELSE IF current_price >= trade.target
        THEN [status |-> "target", price |-> current_price, r |-> r_current,
              new_stop |-> trade.stop_loss]
        ELSE IF current_price <= trade.stop_loss
        THEN [status |-> "stopped", price |-> current_price, r |-> r_current,
              new_stop |-> trade.stop_loss]
        ELSE IF trade.strategy = "conservative" /\ r_current >= 100
                /\ current_price > trade.trail_stop
        THEN [status |-> "trail_updated", price |-> current_price, r |-> r_current,
              new_stop |-> trade.trail_stop]
        ELSE IF trade.strategy = "meanrev" /\ trade.trail_step > 0
                /\ new_stop > trade.stop_loss
        THEN [status |-> "trail_updated", price |-> current_price, r |-> r_current,
              new_stop |-> new_stop]
        ELSE [status |-> "open", price |-> current_price, r |-> r_current,
              new_stop |-> trade.stop_loss]

\* faulty variant: the mean-reversion stop follows the price in both
\* directions
monitor_trade_trail_follows(trade, current_price) ==
    LET r_current == calculate_r(trade.entry_price, current_price, trade.stop_loss)
        new_stop  == current_price - trade.trail_step
    IN  IF current_price <= 0
        THEN [status |-> "open", price |-> 0, r |-> 0, new_stop |-> trade.stop_loss]
        ELSE IF current_price <= trade.stop_loss
        THEN [status |-> "stopped", price |-> current_price, r |-> r_current,
              new_stop |-> trade.stop_loss]
        ELSE IF current_price >= trade.target
        THEN [status |-> "target", price |-> current_price, r |-> r_current,
              new_stop |-> trade.stop_loss]
        ELSE IF trade.strategy = "conservative" /\ r_current >= 100
                /\ current_price > trade.trail_stop
        THEN [status |-> "trail_updated", price |-> current_price, r |-> r_current,
              new_stop |-> trade.trail_stop]
        ELSE IF trade.strategy = "meanrev" /\ trade.trail_step > 0
                /\ new_stop # trade.stop_loss
        THEN [status |-> "trail_updated", price |-> current_price, r |-> r_current,
              new_stop |-> new_stop]
        ELSE [status |-> "open", price |-> current_price, r |-> r_current,
              new_stop |-> trade.stop_loss]

\* faulty variant: the conservative stop is moved whenever the price is
\* above trail_stop, whatever R is
monitor_trade_trails_again(trade, current_price) ==
    LET r_current == calculate_r(trade.entry_price, current_price, trade.stop_loss)
        new_stop  == update_trailing_stop(current_price, trade.stop_loss,
                                          trade.trail_step)
    IN  IF current_price <= 0
        THEN [status |-> "open", price |-> 0, r |-> 0, new_stop |-> trade.stop_loss]
        ELSE IF current_price <= trade.stop_loss
        THEN [status |-> "stopped", price |-> current_price, r |-> r_current,
              new_stop |-> trade.stop_loss]
        ELSE IF current_price >= trade.target
        THEN [status |-> "target", price |-> current_price, r |-> r_current,
              new_stop |-> trade.stop_loss]
        ELSE IF trade.strategy = "conservative"
                /\ current_price > trade.trail_stop
        THEN [status |-> "trail_updated", price |-> current_price, r |-> r_current,
              new_stop |-> trade.trail_stop]
        ELSE IF trade.strategy = "meanrev" /\ trade.trail_step > 0
                /\ new_stop > trade.stop_loss
        THEN [status |-> "trail_updated", price |-> current_price, r |-> r_current,
              new_stop |-> new_stop]
        ELSE [status |-> "open", price |-> current_price, r |-> r_current,
              new_stop |-> trade.stop_loss]

\* monitor_trade, given the price get_current_price returned (0 = no quote)
monitor_trade(trade, current_price) ==
    LET r_current == calculate_r(trade.entry_price, current_price, trade.stop_loss)
        new_stop  == update_trailing_stop(current_price, trade.stop_loss,
                                          trade.trail_step)
    IN  IF current_price <= 0
        THEN [status |-> "open", price |-> 0, r |-> 0, new_stop |-> trade.stop_loss]
        ELSE IF current_price <= trade.stop_loss
        THEN [status |-> "stopped", price |-> current_price, r |-> r_current,
              new_stop |-> trade.stop_loss]
        ELSE IF current_price >= trade.target
        THEN [status |-> "target", price |-> current_price, r |-> r_current,
              new_stop |-> trade.stop_loss]
        ELSE IF trade.strategy = "conservative" /\ r_current >= 100
                /\ current_price > trade.trail_stop
        THEN [status |-> "trail_updated", price |-> current_price, r |-> r_current,
              new_stop |-> trade.trail_stop]
        ELSE IF trade.strategy = "meanrev" /\ trade.trail_step > 0
                /\ new_stop > trade.stop_loss
        THEN [status |-> "trail_updated", price |-> current_price, r |-> r_current,
              new_stop |-> new_stop]
        ELSE [status |-> "open", price |-> current_price, r |-> r_current,
              new_stop |-> trade.stop_loss]

-----------------------------------------------------------------------------
(* Signals, as the two strategies build them from the bars they read.      *)

\* strategy_conservative.calculate_levels and the 5% filter of analyze:
\* the signal for a last close `entry` and a lowest recent low `stop`
conservative_signal(ticker, entry, stop) ==
    LET risk == entry - stop
    IN  [ticker      |-> ticker,
         strategy    |-> "conservative",
         has_signal  |-> ~(100 * risk > 5 * entry),
         entry_price |-> entry,
         stop_loss   |-> stop,
         target      |-> entry + RoundDiv(risk * S1_TARGET_HALF_R, 2),
         trail_stop  |-> entry + RoundDiv(risk * S1_TRAIL_TO_HALF_R, 2),
         trail_step  |-> 0]

\* strategy_meanrev.calculate_levels and check_risk_reward
meanrev_signal(ticker, entry, stop) ==
    LET risk == entry - stop
        tp2  == entry + risk * TP2_R
    IN  [ticker      |-> ticker,
         strategy    |-> "meanrev",
         has_signal  |-> risk > 0 /\ tp2 - entry >= 2 * risk,
         entry_price |-> entry,
         stop_loss   |-> stop,
         target_tp1  |-> entry + risk * TP1_R,
         target_tp2  |-> tp2,
         target      |-> tp2,
         trail_stop  |-> 0,
         trail_step  |-> RoundDiv(entry * TRAIL_STEP_PER_MILLE, 1000)]

-----------------------------------------------------------------------------
(* executor.py: entries.  order_id is what place_bracket_order returned,   *)
(* 0 standing for None.                                                    *)

\* the bracket order an entry submits
bracket_order(signal, quantity) ==
    [ticker |-> signal.ticker, qty |-> quantity, entry_price |-> signal.entry_price,
     stop_loss |-> signal.stop_loss, target |-> signal.target]

\* faulty variant: a signal the sizer rejects is ordered with one share
open_conservative_trade_unsized(signal, balance, order_id) ==
    LET sizing == calculate_position_size(balance, signal.entry_price,
                                          signal.stop_loss, FALSE)
        quantity == IF sizing.error # "none" THEN 1 ELSE sizing.quantity
    IN  IF order_id = 0
        THEN [kind |-> "none", sizing |-> sizing,
              order |-> bracket_order(signal, quantity)]
        ELSE [kind |-> "trade", sizing |-> sizing,
              order |-> bracket_order(signal, quantity),
              trade |-> [ticker      |-> signal.ticker,
                         strategy    |-> "conservative",
                         order_id    |-> order_id,
                         entry_price |-> signal.entry_price,
                         stop_loss   |-> signal.stop_loss,
                         target      |-> signal.target,
                         trail_stop  |-> signal.trail_stop,
                         trail_step  |-> 0,
                         quantity    |-> quantity,
                         risk_amount |-> 0]]

open_conservative_trade(signal, balance, order_id) ==
    LET sizing == calculate_position_size(balance, signal.entry_price,
                                          signal.stop_loss, FALSE)
    IN  IF sizing.error # "none" THEN [kind |-> "raise", sizing |-> sizing]
        ELSE IF order_id = 0
        THEN [kind |-> "none", sizing |-> sizing,
              order |-> bracket_order(signal, sizing.quantity)]
        ELSE [kind |-> "trade", sizing |-> sizing,
              order |-> bracket_order(signal, sizing.quantity),
              trade |-> [ticker      |-> signal.ticker,
                         strategy    |-> "conservative",
                         order_id    |-> order_id,
                         entry_price |-> signal.entry_price,
                         stop_loss   |-> signal.stop_loss,
                         target      |-> signal.target,
                         trail_stop  |-> signal.trail_stop,
                         trail_step  |-> 0,
                         quantity    |-> sizing.quantity,
                         risk_amount |-> sizing.risk_amount]]

\* the quantity field of a mean-reversion OpenTrade: executor.py:319 stores
\* signal.entry_price (a dollar amount) there, not the sized quantity
meanrev_trade_quantity(signal, sizing) == signal.entry_price \div 100

\* faulty variant: the OpenTrade is built whether or not the broker gave an
\* order id
open_meanrev_trade_without_id(signal, balance, order_id) ==
    LET sizing == calculate_position_size(balance, signal.entry_price,
                                          signal.stop_loss, TRUE)
    IN  IF sizing.error # "none" THEN [kind |-> "raise", sizing |-> sizing]
        ELSE [kind |-> "trade", sizing |-> sizing,
              order |-> bracket_order(signal, sizing.quantity),
              trade |-> [ticker      |-> signal.ticker,
                         strategy    |-> "meanrev",
                         order_id    |-> order_id,
                         entry_price |-> signal.entry_price,
                         stop_loss   |-> signal.stop_loss,
                         target      |-> signal.target,
                         trail_stop  |-> 0,
                         trail_step  |-> signal.trail_step,
                         quantity    |-> meanrev_trade_quantity(signal, sizing),
                         risk_amount |-> sizing.risk_amount]]

open_meanrev_trade(signal, balance, order_id) ==
    LET sizing == calculate_position_size(balance, signal.entry_price,
                                          signal.stop_loss, TRUE)
    IN  IF sizing.error # "none" THEN [kind |-> "raise", sizing |-> sizing]
        ELSE IF order_id = 0
        THEN [kind |-> "none", sizing |-> sizing,
              order |-> bracket_order(signal, sizing.quantity)]
        ELSE [kind |-> "trade", sizing |-> sizing,
              order |-> bracket_order(signal, sizing.quantity),
              trade |-> [ticker      |-> signal.ticker,
                         strategy    |-> "meanrev",
                         order_id    |-> order_id,
                         entry_price |-> signal.entry_price,
                         stop_loss   |-> signal.stop_loss,
                         target      |-> signal.target,
                         trail_stop  |-> 0,
                         trail_step  |-> signal.trail_step,
                         quantity    |-> meanrev_trade_quantity(signal, sizing),
                         risk_amount |-> sizing.risk_amount]]

-----------------------------------------------------------------------------
(* main.py: the monitor pass.                                              *)

\* reporter.record_trade: what it computes for the persisted record
record_trade(trade, exit_price, exit_reason) ==
    LET pnl == (exit_price - trade.entry_price) * trade.quantity
    IN  [pnl        |-> pnl,
         r_achieved |-> calculate_r(trade.entry_price, exit_price, trade.stop_loss),
         outcome    |-> IF pnl > 0 THEN "win" ELSE "loss",
         exit_reason |-> exit_reason]

\* one closing, as the system performed it: the market sell it issued
\* (sell_ok: place_market_sell returned an order id), the record it
\* persisted and the call it made on the governor.  broker_calls are the
\* requests sent to the broker for this trade: the sell, and no cancel_order
\* for the stop-loss and take-profit legs of its bracket.
closing(trade, exit_price, exit_reason, sell_ok, r, governor) ==
    [order_id    |-> trade.order_id,
     strategy    |-> trade.strategy,
     exit_reason |-> exit_reason,
     sell_qty    |-> trade.quantity,
     sell_ok     |-> sell_ok,
     exit_price  |-> exit_price,
     stop_loss   |-> trade.stop_loss,
     record      |-> record_trade(trade, exit_price, exit_reason),
     r           |-> r,
     governor    |-> governor,
     broker_calls |-> <<"place_market_sell">>]

\* faulty variant: a trailing-stop update made without telling the notifier
monitor_step_silent_trail(trade, rm, price, sell_ok) ==
    LET result == monitor_trade(trade, price)
        pnl    == (result.price - trade.entry_price) * trade.quantity
        same   == [result |-> result, rm |-> rm, call |-> "none", halted |-> FALSE,
                   trade |-> trade, remove |-> FALSE, closed |-> <<>>,
                   notices |-> <<>>]
    IN  IF result.status = "stopped"
        THEN [same EXCEPT
                !.rm     = record_loss(rm, pnl, result.r),
                !.call   = "record_loss",
                !.halted = record_loss_returns(rm),
                !.remove = TRUE,
                !.closed = <<closing(trade, result.price, "stopped", sell_ok,
                                     result.r, "loss")>>,
                !.notices = IF record_loss_returns(rm)
                            THEN <<"notify_trade_loss", "notify_system_stopped">>
                            ELSE <<"notify_trade_loss">>]
        ELSE IF result.status = "target"
        THEN [same EXCEPT
                !.rm     = record_win(rm, pnl, result.r),
                !.call   = "record_win",
                !.remove = TRUE,
                !.closed = <<closing(trade, result.price, "target", sell_ok,
                                     result.r, "win")>>,
                !.notices = <<"notify_trade_win">>]
        ELSE IF result.status = "trail_updated"
        THEN [same EXCEPT !.trade = [trade EXCEPT !.stop_loss = result.new_stop]]
        ELSE same

\* the body of the loop of _monitor_open_trades for one trade at the price
\* read for it: the governor afterwards, the call made on it, the trade as
\* the loop leaves it, whether it goes to trades_to_remove, the closing, and
\* the calls made on the notifier
monitor_step(trade, rm, price, sell_ok) ==
    LET result == monitor_trade(trade, price)
        pnl    == (result.price - trade.entry_price) * trade.quantity
        same   == [result |-> result, rm |-> rm, call |-> "none", halted |-> FALSE,
                   trade |-> trade, remove |-> FALSE, closed |-> <<>>,
                   notices |-> <<>>]
    IN  IF result.status = "stopped"
        THEN [same EXCEPT
                !.rm     = record_loss(rm, pnl, result.r),
                !.call   = "record_loss",
                !.halted = record_loss_returns(rm),
                !.remove = TRUE,
                !.closed = <<closing(trade, result.price, "stopped", sell_ok,
                                     result.r, "loss")>>,
                !.notices = IF record_loss_returns(rm)
                            THEN <<"notify_trade_loss", "notify_system_stopped">>
                            ELSE <<"notify_trade_loss">>]
        ELSE IF result.status = "target"
        THEN [same EXCEPT
                !.rm     = record_win(rm, pnl, result.r),
                !.call   = "record_win",
                !.remove = TRUE,
                !.closed = <<closing(trade, result.price, "target", sell_ok,
                                     result.r, "win")>>,
                !.notices = <<"notify_trade_win">>]
        ELSE IF result.status = "trail_updated"
        THEN [same EXCEPT !.trade = [trade EXCEPT !.stop_loss = result.new_stop],
                          !.notices = <<"notify_stop_updated">>]
        ELSE same

-----------------------------------------------------------------------------
(* selector.py and main.py: looking for new entries.                       *)

\* selector.run_selector: each ticker is classified to one strategy and
\* analysed by it; market[t] is what the market data of ticker t leads to:
\* the strategy chosen ("none" when the stock is skipped) and the levels
RECURSIVE run_selector(_, _, _, _)
run_selector(tickers, market, i, acc) ==
    IF i > Len(tickers) THEN acc
    ELSE
        LET m   == market[tickers[i]]
            sig == IF m.strategy = "conservative"
                   THEN conservative_signal(tickers[i], m.entry, m.stop)
                   ELSE meanrev_signal(tickers[i], m.entry, m.stop)
        IN  run_selector(tickers, market, i + 1,
                IF m.strategy = "conservative" /\ sig.has_signal
                THEN [acc EXCEPT !.conservative = Append(@, sig)]
                ELSE IF m.strategy = "meanrev" /\ sig.has_signal
                THEN [acc EXCEPT !.meanrev = Append(@, sig)]
                ELSE acc)

\* faulty variant: the entry loops do not ask the governor
entry_step_unguarded(st, signal, balance, rm, accept, one_only) ==
    IF st.done \/ st.crashed THEN st
    ELSE
        LET accepted == accept[Len(st.attempts) + 1]
            order_id == IF accepted THEN Len(st.orders) + 1 ELSE 0
            got      == IF signal.strategy = "conservative"
                        THEN open_conservative_trade(signal, balance, order_id)
                        ELSE open_meanrev_trade(signal, balance, order_id)
            call     == [balance |-> balance, entry_price |-> signal.entry_price,
                         stop_loss |-> signal.stop_loss,
                         use_leverage |-> signal.strategy = "meanrev",
                         result |-> got.sizing]
        IN  IF got.kind = "raise"
            THEN [st EXCEPT !.crashed = TRUE, !.sizing = Append(@, call)]
            ELSE IF got.kind = "none"
            THEN [st EXCEPT !.sizing   = Append(@, call),
                            !.attempts = Append(@, [order |-> got.order, order_id |-> 0])]
            ELSE [st EXCEPT !.sizing   = Append(@, call),
                            !.attempts = Append(@, [order |-> got.order,
                                                    order_id |-> order_id]),
                            !.orders   = Append(@, got.order),
                            !.trades   = Append(@, got.trade),
                            !.done     = one_only]

\* one pass of an entry loop of _scan_for_signals over `signal`; st.done is
\* set by a break, st.crashed by the ValueError of the sizer, which nothing
\* on the way up to main's loop catches
entry_step(st, signal, balance, rm, accept, one_only) ==
    IF st.done \/ st.crashed THEN st
    ELSE IF ~can_trade(rm) THEN [st EXCEPT !.done = TRUE]
    ELSE
        LET accepted == accept[Len(st.attempts) + 1]
            order_id == IF accepted THEN Len(st.orders) + 1 ELSE 0
            got      == IF signal.strategy = "conservative"
                        THEN open_conservative_trade(signal, balance, order_id)
                        ELSE open_meanrev_trade(signal, balance, order_id)
            call     == [balance |-> balance, entry_price |-> signal.entry_price,
                         stop_loss |-> signal.stop_loss,
                         use_leverage |-> signal.strategy = "meanrev",
                         result |-> got.sizing]
        IN  IF got.kind = "raise"
            THEN [st EXCEPT !.crashed = TRUE, !.sizing = Append(@, call)]
            ELSE IF got.kind = "none"
            THEN [st EXCEPT !.sizing   = Append(@, call),
                            !.attempts = Append(@, [order |-> got.order, order_id |-> 0])]
            ELSE [st EXCEPT !.sizing   = Append(@, call),
                            !.attempts = Append(@, [order |-> got.order,
                                                    order_id |-> order_id]),
                            !.orders   = Append(@, got.order),
                            !.trades   = Append(@, got.trade),
                            !.done     = one_only]

RECURSIVE entry_loop(_, _, _, _, _, _, _)
entry_loop(signals, i, st, balance, rm, accept, one_only) ==
    IF i > Len(signals) THEN st
    ELSE entry_loop(signals, i + 1,
                    entry_step(st, signals[i], balance, rm, accept, one_only),
                    balance, rm, accept, one_only)

\* faulty variant: the list is not cut to the free slots
Prefix_whole(seq, n) == seq

\* the first n elements of a list: results["meanrev"][:n]
Prefix(seq, n) == SubSeq(seq, 1, IF n < Len(seq) THEN n ELSE Len(seq))

CountStrategy(trades, strategy) ==
    Cardinality({i \in 1..Len(trades) : trades[i].strategy = strategy})

\* faulty variant: the entries go on with an account that could not be read
scan_entries_without_account(trades, rm, orders, tickers, account, market, accept) ==
    LET conservative_open == CountStrategy(trades, "conservative")
        meanrev_open      == CountStrategy(trades, "meanrev")
        st0     == [trades |-> trades, orders |-> orders, attempts |-> <<>>,
                    sizing |-> <<>>, done |-> FALSE, crashed |-> FALSE,
                    stage |-> "entries", signals |-> 0, account_reads |-> 1]
        results == run_selector(tickers, market, 1,
                                [conservative |-> <<>>, meanrev |-> <<>>])
        st1     == IF conservative_open = 0
                   THEN entry_loop(results.conservative, 1, st0, account.balance,
                                   rm, accept, TRUE)
                   ELSE st0
        st2     == entry_loop(Prefix(results.meanrev, 3 - meanrev_open), 1,
                              [st1 EXCEPT !.done = FALSE], account.balance,
                              rm, accept, FALSE)
    IN  IF meanrev_open >= 3
        THEN [st0 EXCEPT !.stage = "meanrev_full", !.account_reads = 0]
        ELSE [st2 EXCEPT !.signals = Len(results.conservative) + Len(results.meanrev)]

\* the body of _scan_for_signals.  account.ok is FALSE when get_account
\* returned {}.  account_reads counts the calls of get_account: the one
\* before run_selector, whose balance every entry of the scan is sized with.
scan_entries(trades, rm, orders, tickers, account, market, accept) ==
    LET conservative_open == CountStrategy(trades, "conservative")
        meanrev_open      == CountStrategy(trades, "meanrev")
        st0     == [trades |-> trades, orders |-> orders, attempts |-> <<>>,
                    sizing |-> <<>>, done |-> FALSE, crashed |-> FALSE,
                    stage |-> "entries", signals |-> 0, account_reads |-> 1]
        results == run_selector(tickers, market, 1,
                                [conservative |-> <<>>, meanrev |-> <<>>])
        st1     == IF conservative_open = 0
                   THEN entry_loop(results.conservative, 1, st0, account.balance,
                                   rm, accept, TRUE)
                   ELSE st0
        st2     == entry_loop(Prefix(results.meanrev, 3 - meanrev_open), 1,
                              [st1 EXCEPT !.done = FALSE], account.balance,
                              rm, accept, FALSE)
    IN  IF meanrev_open >= 3
        THEN [st0 EXCEPT !.stage = "meanrev_full", !.account_reads = 0]
        ELSE IF ~account.ok THEN [st0 EXCEPT !.stage = "no_account"]
        ELSE [st2 EXCEPT !.signals = Len(results.conservative) + Len(results.meanrev)]

-----------------------------------------------------------------------------
(* The environment: what the broker, the market data and the universe      *)
(* selection can answer.                                                   *)

\* get_daily_universe: nothing, or a trending and a ranging stock
Universes == {<<>>, <<"AAA", "BBB">>}

AllTickers == {"AAA", "BBB"}

\* get_current_price: 0 when no quote could be read
Prices == {0, 9500, 10400, 10420, 10500, 11500}

\* get_account: the equity, in cents
Balances == {100057}

Accounts ==
    {[ok |-> FALSE, balance |-> 0]} \cup {[ok |-> TRUE, balance |-> b] : b \in Balances}

\* what the bars of a ticker lead to: skipped, a conservative breakout
\* (last close and lowest low of the last candles, each rounded to the cent,
\* so that a low a fraction of a cent under the close gives stop = entry)
\* for the trending stock, a mean-reversion setup for the ranging one
MarketViews(ticker) ==
    IF ticker = "AAA"
    THEN {[strategy |-> "none", entry |-> 0, stop |-> 0],
          [strategy |-> "conservative", entry |-> 10000, stop |-> 9500],
          [strategy |-> "conservative", entry |-> 10000, stop |-> 10000]}
    ELSE {[strategy |-> "none", entry |-> 0, stop |-> 0],
          [strategy |-> "meanrev", entry |-> 10000, stop |-> 9500]}

Markets == {m \in [AllTickers -> UNION {MarketViews(t) : t \in AllTickers}] :
                \A t \in AllTickers : m[t] \in MarketViews(t)}

\* place_bracket_order calls one scan can make, and what each returns
AttemptsPerScan == 1..Cardinality(AllTickers)

-----------------------------------------------------------------------------
(* The scheduled routines of main.py.  schedule.run_pending runs one job   *)
(* at a time: while scan_routine is inside its monitor loop no other       *)
(* routine starts.                                                         *)

NoScan == [stage |-> "none", attempts |-> <<>>, signals |-> 0, account_reads |-> 0]

Init ==
    /\ risk_manager = DailyRiskManager
    /\ open_trades = <<>>
    /\ daily_stocks = <<>>
    /\ running = TRUE
    /\ pc = "idle"
    /\ cursor = 1
    /\ trades_to_remove = {}
    /\ clock = "closed"
    /\ order_log = <<>>
    /\ monitor_log = <<>>
    /\ closed_log = <<>>
    /\ sizing_log = <<>>
    /\ scan_log = NoScan
    /\ gov_call = [op |-> "init", ret |-> FALSE]

\* a step that monitors, sizes, scans and closes nothing
NoLogs ==
    /\ monitor_log' = <<>>
    /\ closed_log' = <<>>
    /\ sizing_log' = <<>>
    /\ scan_log' = NoScan

\* the exchange opens
MarketOpens ==
    /\ running /\ pc = "idle"
    /\ clock = "closed"
    /\ clock' = "open"
    /\ NoLogs
    /\ UNCHANGED <<risk_manager, open_trades, daily_stocks, running, pc, cursor,
                   trades_to_remove, order_log, gov_call>>

\* pre_market_routine, scheduled at 09:00, before the open
pre_market_routine ==
    /\ running /\ pc = "idle"
    /\ clock = "closed"
    /\ risk_manager' = reset(risk_manager)
    /\ gov_call' = [op |-> "reset", ret |-> FALSE]
    /\ \E universe \in Universes : daily_stocks' = universe
    /\ NoLogs
    /\ UNCHANGED <<open_trades, running, pc, cursor, trades_to_remove, clock,
                   order_log>>

\* faulty variant: the governor is not asked before the monitor pass
scan_gate_ungoverned(market_open, rm, stocks) ==
    IF ~market_open THEN "market_closed"
    ELSE IF stocks = <<>> THEN "no_stocks"
    ELSE ""

\* the early returns of scan_routine: which one is taken, "" when none
scan_gate(market_open, rm, stocks) ==
    IF ~market_open THEN "market_closed"
    ELSE IF ~can_trade(rm) THEN "halted"
    ELSE IF stocks = <<>> THEN "no_stocks"
    ELSE ""

\* scan_routine, every 5 minutes: its three gates; past them it enters
\* _monitor_open_trades
scan_routine ==
    /\ running /\ pc = "idle"
    /\ \E market_open \in (IF clock = "open" THEN BOOLEAN ELSE {FALSE}) :
         LET gate == scan_gate(market_open, risk_manager, daily_stocks)
         IN  /\ scan_log' = [NoScan EXCEPT !.stage = IF gate = "" THEN "monitor" ELSE gate]
             /\ pc' = IF gate = "" THEN "monitor" ELSE "idle"
    /\ cursor' = 1
    /\ trades_to_remove' = {}
    /\ monitor_log' = <<>>
    /\ closed_log' = <<>>
    /\ sizing_log' = <<>>
    /\ UNCHANGED <<risk_manager, open_trades, daily_stocks, running, clock,
                   order_log, gov_call>>

\* one turn of the loop of _monitor_open_trades: the trade at the cursor
monitor_open_trades ==
    /\ running /\ pc = "monitor"
    /\ cursor <= Len(open_trades)
    /\ \E price \in Prices, sell_ok \in BOOLEAN :
       \E step \in {monitor_step(open_trades[cursor], risk_manager, price, sell_ok)} :
         /\ sell_ok => step.remove
         /\ risk_manager' = step.rm
         /\ gov_call' = IF step.call = "none" THEN gov_call
                        ELSE [op |-> step.call, ret |-> step.halted]
         /\ open_trades' = [open_trades EXCEPT ![cursor] = step.trade]
         /\ trades_to_remove' = IF step.remove
                                THEN trades_to_remove \cup {step.trade.order_id}
                                ELSE trades_to_remove
         /\ monitor_log' = <<[trade |-> open_trades[cursor], price |-> price,
                              result |-> step.result, halted |-> step.halted,
                              notices |-> step.notices]>>
         /\ closed_log' = step.closed
    /\ cursor' = cursor + 1
    /\ sizing_log' = <<>>
    /\ scan_log' = [NoScan EXCEPT !.stage = "monitor"]
    /\ UNCHANGED <<daily_stocks, running, pc, clock, order_log>>

\* faulty variant: the closed trades are left in the list
RemoveClosed_nothing(trades, ids) == trades

\* open_trades.remove for every trade of trades_to_remove
RemoveClosed(trades, ids) ==
    SelectSeq(trades, LAMBDA t : t.order_id \notin ids)

\* the end of _monitor_open_trades, then _scan_for_signals
scan_for_signals ==
    /\ running /\ pc = "monitor"
    /\ cursor > Len(open_trades)
    /\ \E account \in Accounts, market \in Markets,
          accept \in [AttemptsPerScan -> BOOLEAN] :
       \E st \in {scan_entries(RemoveClosed(open_trades, trades_to_remove),
                               risk_manager, order_log, daily_stocks, account,
                               market, accept)} :
         /\ Len(st.orders) <= MaxOrders
         /\ \A i \in AttemptsPerScan : i > Len(st.attempts) => ~accept[i]
         /\ open_trades' = st.trades
         /\ order_log' = st.orders
         /\ sizing_log' = st.sizing
         /\ scan_log' = [stage |-> st.stage, attempts |-> st.attempts,
                         signals |-> st.signals,
                         account_reads |-> st.account_reads]
         /\ running' = ~st.crashed
    /\ pc' = "idle"
    /\ cursor' = 1
    /\ trades_to_remove' = {}
    /\ monitor_log' = <<>>
    /\ closed_log' = <<>>
    /\ UNCHANGED <<risk_manager, daily_stocks, clock, gov_call>>

RECURSIVE close_loop(_, _, _, _)
close_loop(trades, sells, i, acc) ==
    IF i > Len(trades) THEN acc
    ELSE close_loop(trades, sells, i + 1,
                    Append(acc, closing(trades[i], trades[i].entry_price, "eod",
                                        sells[i], 0, "none")))

\* faulty variant: the list keeps its trades
clear_nothing(trades) == trades

\* open_trades.clear()
clear(trades) == <<>>

\* market_close_routine, scheduled at 16:05
market_close_routine ==
    /\ running /\ pc = "idle"
    /\ \E sells \in [1..Len(open_trades) -> BOOLEAN] :
         closed_log' = close_loop(open_trades, sells, 1, <<>>)
    /\ open_trades' = clear(open_trades)
    /\ clock' = "closed"
    /\ monitor_log' = <<>>
    /\ sizing_log' = <<>>
    /\ scan_log' = [NoScan EXCEPT !.stage = "market_close"]
    /\ UNCHANGED <<risk_manager, daily_stocks, running, pc, cursor,
                   trades_to_remove, order_log, gov_call>>

Next ==
    \/ MarketOpens
    \/ pre_market_routine
    \/ scan_routine
    \/ monitor_open_trades
    \/ scan_for_signals
    \/ market_close_routine

Spec == Init /\ [][Next]_vars

\* the scheduler keeps running: a scan that has started runs through its
\* monitor loop and its entries (one sequential call), and the close routine
\* of 16:05 comes round every day however many scans run in between
SpecLive ==
    /\ Spec
    /\ WF_vars(monitor_open_trades)
    /\ WF_vars(scan_for_signals)
    /\ SF_vars(market_close_routine)

-----------------------------------------------------------------------------
(* The governor object on its own: any sequence of calls of its methods.   *)

\* what callers pass to record_win and record_loss: PnL in cents, R in
\* hundredths
WinOutcomes == {[pnl |-> 3000, r |-> 100], [pnl |-> 9000, r |-> 300]}

LossOutcomes == {[pnl |-> -3000, r |-> -100], [pnl |-> 0, r |-> 0]}

GovernorFrame ==
    UNCHANGED <<open_trades, daily_stocks, running, pc, cursor, trades_to_remove,
                clock, order_log, monitor_log, closed_log, sizing_log, scan_log>>

call_record_win ==
    /\ risk_manager.daily_wins + risk_manager.daily_losses < MaxCalls
    /\ \E o \in WinOutcomes : risk_manager' = record_win(risk_manager, o.pnl, o.r)
    /\ gov_call' = [op |-> "record_win", ret |-> FALSE]
    /\ GovernorFrame

call_record_loss ==
    /\ risk_manager.daily_wins + risk_manager.daily_losses < MaxCalls
    /\ \E o \in LossOutcomes : risk_manager' = record_loss(risk_manager, o.pnl, o.r)
    /\ gov_call' = [op |-> "record_loss", ret |-> record_loss_returns(risk_manager)]
    /\ GovernorFrame

\* before: the governor the call found
call_reset ==
    /\ risk_manager' = reset(risk_manager)
    /\ gov_call' = [op |-> "reset", ret |-> FALSE, before |-> risk_manager]
    /\ GovernorFrame

NextGovernor == call_record_win \/ call_record_loss \/ call_reset

SpecGovernor == Init /\ [][NextGovernor]_vars

-----------------------------------------------------------------------------
(* The capacity of open_trades: whole scan ticks on a day whose universe   *)
(* offers more signals than there are slots.  Every quote of these ticks   *)
(* is either missing, at the trade's initial stop or at its target, and    *)
(* every order is accepted.                                                *)

\* get_daily_universe: two trending stocks, then four ranging ones
CapacityUniverse == <<"AAA", "AAB", "BBB", "BBC", "BBD", "BBE">>

CapacityTickers == {CapacityUniverse[i] : i \in DOMAIN CapacityUniverse}

\* the market in which the first cons trending stocks and the first revs
\* ranging stocks of the universe give a signal
CapacityMarket(cons, revs) ==
    [t \in CapacityTickers |->
        LET i == CHOOSE k \in DOMAIN CapacityUniverse : CapacityUniverse[k] = t
            trending == i <= 2
        IN  IF (trending /\ i <= cons) \/ (~trending /\ i - 2 <= revs)
            THEN [strategy |-> IF trending THEN "conservative" ELSE "meanrev",
                  entry |-> 10000, stop |-> 9500]
            ELSE [strategy |-> "none", entry |-> 0, stop |-> 0]]

\* no signal at all, one ranging stock, more ranging stocks than slots, or
\* more stocks than slots of either strategy
CapacityMarkets ==
    {CapacityMarket(0, 0), CapacityMarket(0, 1), CapacityMarket(0, 4),
     CapacityMarket(2, 4)}

\* what place_bracket_order returns for each call of one scan
CapacityAccepts == {[i \in DOMAIN CapacityUniverse |-> TRUE]}

\* get_current_price during these ticks: no quote, the initial stop, or the
\* final target
CapacityPrices == {0, 9500, 11500}

\* the loop of _monitor_open_trades and the removal after it:
\* prices[i] is the quote of trade i; acc gathers the trades kept, the
\* governor, and what each turn of the loop did
RECURSIVE monitor_pass(_, _, _, _)
monitor_pass(trades, prices, i, acc) ==
    IF i > Len(trades) THEN acc
    ELSE LET step == monitor_step(trades[i], acc.rm, prices[i], TRUE)
         IN  monitor_pass(trades, prices, i + 1,
                [trades |-> IF step.remove THEN acc.trades
                            ELSE Append(acc.trades, step.trade),
                 rm     |-> step.rm,
                 log    |-> Append(acc.log,
                                   [trade |-> trades[i], price |-> prices[i],
                                    result |-> step.result, halted |-> step.halted,
                                    notices |-> step.notices]),
                 closed |-> acc.closed \o step.closed])

\* pre_market_routine on such a day
capacity_pre_market ==
    /\ running /\ pc = "idle"
    /\ daily_stocks = <<>>
    /\ risk_manager' = reset(risk_manager)
    /\ gov_call' = [op |-> "reset", ret |-> FALSE]
    /\ daily_stocks' = CapacityUniverse
    /\ NoLogs
    /\ UNCHANGED <<open_trades, running, pc, cursor, trades_to_remove, clock,
                   order_log>>

\* scan_routine with the market open, from its gates to the end of
\* _scan_for_signals; a tick one of the gates ends does nothing more.
\* conservative_offered: the conservative signals the market of the tick
\* holds for run_selector, whether or not the scan comes to call it
capacity_scan_routine ==
    /\ running /\ pc = "idle"
    /\ LET gate == scan_gate(TRUE, risk_manager, daily_stocks)
       IN  IF gate # ""
           THEN /\ scan_log' = [NoScan EXCEPT !.stage = gate]
                /\ sizing_log' = <<>>
                /\ monitor_log' = <<>>
                /\ closed_log' = <<>>
                /\ UNCHANGED <<risk_manager, open_trades, order_log>>
           ELSE
             \E prices \in [DOMAIN open_trades -> CapacityPrices],
                market \in CapacityMarkets, accept \in CapacityAccepts :
             \E seen \in {monitor_pass(open_trades, prices, 1,
                                       [trades |-> <<>>, rm |-> risk_manager,
                                        log |-> <<>>, closed |-> <<>>])} :
             \E st \in {scan_entries(seen.trades, seen.rm, order_log, daily_stocks,
                                     [ok |-> TRUE, balance |-> 100057], market,
                                     accept)} :
               /\ Len(st.orders) <= MaxCapacityOrders
               /\ risk_manager' = seen.rm
               /\ open_trades' = st.trades
               /\ order_log' = st.orders
               /\ sizing_log' = st.sizing
               /\ scan_log' = [stage |-> st.stage, attempts |-> st.attempts,
                               signals |-> st.signals,
                               account_reads |-> st.account_reads,
                               conservative_offered |->
                                   Len(run_selector(daily_stocks, market, 1,
                                           [conservative |-> <<>>,
                                            meanrev |-> <<>>]).conservative)]
               /\ monitor_log' = seen.log
               /\ closed_log' = seen.closed
    /\ UNCHANGED <<daily_stocks, running, pc, cursor, trades_to_remove, clock,
                   gov_call>>

NextCapacity == capacity_pre_market \/ capacity_scan_routine

SpecCapacity == Init /\ [][NextCapacity]_vars

-----------------------------------------------------------------------------
(* calculate_position_size on its own, over a grid of arguments.           *)

\* balances in cents: overdrawn, empty, $10, $1000, $1000.57, $2500
SizerBalances == {-5000, 0, 1000, 100000, 100057, 250000}

\* entry and stop prices in cents
SizerPrices == {-100, 0, 4800, 5000, 9500, 9990, 10000}

call_calculate_position_size ==
    /\ \E balance \in SizerBalances, entry_price \in SizerPrices,
          stop_loss \in SizerPrices, use_leverage \in BOOLEAN :
         sizing_log' = <<[balance |-> balance, entry_price |-> entry_price,
                          stop_loss |-> stop_loss, use_leverage |-> use_leverage,
                          result |-> calculate_position_size(balance, entry_price,
                                                             stop_loss, use_leverage)]>>
    /\ UNCHANGED <<risk_manager, open_trades, daily_stocks, running, pc, cursor,
                   trades_to_remove, clock, order_log, monitor_log, closed_log,
                   scan_log, gov_call>>

SpecSizer == Init /\ [][call_calculate_position_size]_vars

-----------------------------------------------------------------------------
(* monitor_trade on its own, over a grid of trades and prices: any         *)
(* OpenTrade the dataclass admits, not only those the entries build.       *)

AnyTrades ==
    [ticker      : {"AAA"},
     strategy    : {"conservative", "meanrev"},
     order_id    : {1},
     entry_price : {10000},
     stop_loss   : {9500, 10000, 10500},
     target      : {10000, 10500, 11500},
     trail_stop  : {0, 9000, 10250},
     trail_step  : {0, 50},
     quantity    : {10},
     risk_amount : {3000}]

call_monitor_trade ==
    /\ \E trade \in AnyTrades, price \in Prices :
         monitor_log' = <<[trade |-> trade, price |-> price,
                           result |-> monitor_trade(trade, price),
                           halted |-> FALSE]>>
    /\ UNCHANGED <<risk_manager, open_trades, daily_stocks, running, pc, cursor,
                   trades_to_remove, clock, order_log, closed_log, sizing_log,
                   scan_log, gov_call>>

SpecMonitor == Init /\ [][call_monitor_trade]_vars

-----------------------------------------------------------------------------
(* Properties.                                                             *)

\* C1: whenever monitor_trade is given a price p > 0 with p <= stop_loss
\* and p >= target at once (a gap across both levels), the status it
\* returns is "stopped", never "target": the protective exit wins.
C1_StopWinsOverTarget ==
    \A i \in DOMAIN monitor_log :
        LET e == monitor_log[i]
        IN  (e.price > 0 /\ e.price <= e.trade.stop_loss /\ e.price >= e.trade.target)
                => e.result.status = "stopped"

\* a call with the price at or under the stop and at or over the target
C1_Witness ==
    \E i \in DOMAIN monitor_log :
        LET e == monitor_log[i]
        IN  /\ e.price > 0 /\ e.price <= e.trade.stop_loss /\ e.price >= e.trade.target
            /\ e.trade.target < e.trade.stop_loss
            /\ e.result.status = "stopped"

\* C3: once daily_losses has reached MAX_DAILY_LOSSES, is_stopped is true,
\* and it stays true under every later record_win and record_loss: only
\* reset() sets it back to false.
C3_HaltLatched ==
    [][/\ risk_manager'.daily_losses >= MAX_DAILY_LOSSES => risk_manager'.is_stopped
       /\ (risk_manager.is_stopped /\ ~risk_manager'.is_stopped)
              => gov_call'.op = "reset"]_vars

\* the governor halted, and a win recorded on it afterwards
C3_Witness ==
    /\ risk_manager.is_stopped
    /\ risk_manager.daily_losses >= MAX_DAILY_LOSSES
    /\ gov_call.op = "record_win"

\* the exact quotient the sizer cuts to whole shares, rounded down
SharesAffordable(balance, entry_price, stop_loss, leverage) ==
    (balance * RISK_PER_TRADE * leverage) \div (100 * (entry_price - stop_loss))

\* C9 as stated: for every valid call, quantity is
\* max(1, floor(balance * RISK_PER_TRADE * leverage / (entry - stop))) with
\* leverage 1 or STRATEGY2_LEVERAGE, and the risk_amount returned is exactly
\* balance * RISK_PER_TRADE.
C9_Original ==
    \A i \in DOMAIN sizing_log :
        LET c == sizing_log[i]
            leverage == IF c.use_leverage THEN STRATEGY2_LEVERAGE ELSE 1
        IN  c.result.error = "none" =>
              /\ c.result.quantity =
                    Max(1, SharesAffordable(c.balance, c.entry_price, c.stop_loss,
                                            leverage))
              /\ 100 * c.result.risk_amount = c.balance * RISK_PER_TRADE

\* C9, amended: for every valid call, quantity is
\* max(1, floor(balance * RISK_PER_TRADE * leverage / (entry - stop))), and
\* the risk_amount returned is balance * RISK_PER_TRADE rounded to the cent:
\* it is a whole number of cents at most half a cent away from it.
C9_SizingFormula ==
    \A i \in DOMAIN sizing_log :
        LET c == sizing_log[i]
            leverage == IF c.use_leverage THEN STRATEGY2_LEVERAGE ELSE 1
            off == 100 * c.result.risk_amount - c.balance * RISK_PER_TRADE
        IN  c.result.error = "none" =>
              /\ c.result.quantity =
                    Max(1, SharesAffordable(c.balance, c.entry_price, c.stop_loss,
                                            leverage))
              /\ c.result.leverage = leverage
              /\ -50 <= off /\ off <= 50

\* the call of the example: balance $1000, entry $50, stop $48, no leverage,
\* giving 15 shares and $30 at risk
C9_Witness ==
    \E i \in DOMAIN sizing_log :
        LET c == sizing_log[i]
        IN  /\ c.balance = 100000 /\ c.entry_price = 5000 /\ c.stop_loss = 4800
            /\ ~c.use_leverage
            /\ c.result.error = "none"
            /\ c.result.quantity = 15
            /\ c.result.risk_amount = 3000

\* C10: without leverage, for every valid call on a positive balance,
\* quantity >= 1 and quantity * (entry - stop) goes over the risk budget
\* balance * RISK_PER_TRADE by less than the risk of one share.
C10_RiskWithinOneShare ==
    \A i \in DOMAIN sizing_log :
        LET c == sizing_log[i]
            risk_per_share == c.entry_price - c.stop_loss
        IN  (c.result.error = "none" /\ ~c.use_leverage /\ c.balance > 0) =>
              /\ c.result.quantity >= 1
              /\ 100 * c.result.quantity * risk_per_share
                    < c.balance * RISK_PER_TRADE + 100 * risk_per_share

\* a call where the budget buys less than one share and the minimum of one
\* share is what goes over it
C10_Witness ==
    \E i \in DOMAIN sizing_log :
        LET c == sizing_log[i]
            risk_per_share == c.entry_price - c.stop_loss
        IN  /\ c.result.error = "none" /\ ~c.use_leverage /\ c.balance > 0
            /\ c.result.quantity = 1
            /\ 100 * risk_per_share > c.balance * RISK_PER_TRADE

\* C2: for every open trade, conservative or mean-reversion, the stop_loss
\* it holds after a step is never below the one it held before: across
\* monitor ticks the stop only moves up.
C2_StopNeverDecreases ==
    [][\A i \in DOMAIN open_trades : \A j \in DOMAIN open_trades' :
          open_trades[i].order_id = open_trades'[j].order_id
              => open_trades'[j].stop_loss >= open_trades[i].stop_loss]_vars

\* a conservative trade moved to its trail_stop and a mean-reversion trade
\* trailed behind the price, both above the stops they were opened with
C2_Witness ==
    /\ \E i \in DOMAIN open_trades :
          /\ open_trades[i].strategy = "conservative"
          /\ open_trades[i].stop_loss > order_log[open_trades[i].order_id].stop_loss
    /\ \E i \in DOMAIN open_trades :
          /\ open_trades[i].strategy = "meanrev"
          /\ open_trades[i].stop_loss > order_log[open_trades[i].order_id].stop_loss

\* C4: while the governor is halted no trade is opened and no entry order
\* is submitted, the rest of the tick in which the halting loss was
\* recorded included.
C4_NoEntryWhileHalted ==
    [][risk_manager.is_stopped =>
          /\ order_log' = order_log
          /\ scan_log'.attempts = <<>>
          /\ \A j \in DOMAIN open_trades' : \E i \in DOMAIN open_trades :
                open_trades[i].order_id = open_trades'[j].order_id]_vars

\* the entry pass of a tick whose monitor pass halted the governor: it was
\* given signals and opened nothing
C4_Witness ==
    /\ risk_manager.is_stopped
    /\ scan_log.stage = "entries"
    /\ scan_log.signals > 0
    /\ scan_log.attempts = <<>>

\* the trade the last monitor step looked at, as that step left it
MonitoredAfter == open_trades[cursor - 1]

\* the first target of a mean-reversion trade: TP1_R times the risk it was
\* opened with above the entry
FirstTarget(trade) ==
    trade.entry_price
        + (trade.entry_price - order_log[trade.order_id].stop_loss) * TP1_R

\* C5: every exit sells what the entry bought: the quantity of the market
\* sell of a stop, target or end-of-day closing equals the quantity of the
\* trade's entry bracket order.
C5_SellsWhatWasBought ==
    \A i \in DOMAIN closed_log :
        closed_log[i].sell_qty = order_log[closed_log[i].order_id].qty

\* a mean-reversion trade closed with a sell of another size than its entry
C5_Divergence ==
    \E i \in DOMAIN closed_log :
        /\ closed_log[i].strategy = "meanrev"
        /\ closed_log[i].sell_qty # order_log[closed_log[i].order_id].qty

\* C6: when the market sell of a stop or target exit returns no order id,
\* the trade is not closed: it is not taken out of open_trades and no win
\* or loss is recorded for it.
C6_FailedSellKeepsTrade ==
    \A i \in DOMAIN closed_log :
        (closed_log[i].exit_reason \in {"stopped", "target"} /\ ~closed_log[i].sell_ok)
            => /\ closed_log[i].order_id \notin trades_to_remove
               /\ closed_log[i].governor = "none"

\* an exit whose sell returned no order id, recorded and removed all the same
C6_Divergence ==
    \E i \in DOMAIN closed_log :
        /\ closed_log[i].exit_reason \in {"stopped", "target"}
        /\ ~closed_log[i].sell_ok
        /\ closed_log[i].order_id \in trades_to_remove
        /\ closed_log[i].governor # "none"

\* C7: a tick that finds a mean-reversion trade, still on the stop it was
\* opened with, at or above its first target (and above the stop, below
\* the final target) sells a first leg and moves the stop to the entry
\* price.
C7_FirstTargetTick ==
    \A i \in DOMAIN monitor_log :
        LET e == monitor_log[i]
        IN  (/\ e.trade.strategy = "meanrev"
             /\ e.trade.stop_loss = order_log[e.trade.order_id].stop_loss
             /\ e.price >= FirstTarget(e.trade)
             /\ e.price > e.trade.stop_loss
             /\ e.price < e.trade.target)
                => /\ closed_log # <<>>
                   /\ MonitoredAfter.stop_loss = e.trade.entry_price

\* such a tick: nothing sold, the stop trailed to the price less trail_step
C7_Divergence ==
    \E i \in DOMAIN monitor_log :
        LET e == monitor_log[i]
        IN  /\ e.trade.strategy = "meanrev"
            /\ e.trade.stop_loss = order_log[e.trade.order_id].stop_loss
            /\ e.price >= FirstTarget(e.trade)
            /\ e.price < e.trade.target
            /\ closed_log = <<>>
            /\ MonitoredAfter.stop_loss = e.price - e.trade.trail_step

\* C8: a tick that finds a mean-reversion trade below its first target,
\* the first target never reached before, leaves its stop_loss as it is.
C8_NoTrailBeforeFirstTarget ==
    \A i \in DOMAIN monitor_log :
        LET e == monitor_log[i]
        IN  (/\ e.trade.strategy = "meanrev"
             /\ e.trade.stop_loss = order_log[e.trade.order_id].stop_loss
             /\ e.price > 0
             /\ e.price < FirstTarget(e.trade))
                => MonitoredAfter.stop_loss = e.trade.stop_loss

\* such a tick, with the stop moved up
C8_Divergence ==
    \E i \in DOMAIN monitor_log :
        LET e == monitor_log[i]
        IN  /\ e.trade.strategy = "meanrev"
            /\ e.trade.stop_loss = order_log[e.trade.order_id].stop_loss
            /\ e.price > e.trade.stop_loss
            /\ e.price < FirstTarget(e.trade)
            /\ e.result.status = "trail_updated"
            /\ MonitoredAfter.stop_loss > e.trade.stop_loss

\* the levels calculate_position_size refuses
InvalidLevels(entry_price, stop_loss) ==
    entry_price <= 0 \/ stop_loss <= 0 \/ stop_loss >= entry_price

\* C11: for a signal with entry_price <= 0, stop_loss <= 0 or
\* stop_loss >= entry_price the sizer fails with an error and gives no
\* quantity, and no bracket order is submitted and no OpenTrade exists for
\* such levels.
C11_InvalidSignalNeverTraded ==
    /\ \A i \in DOMAIN sizing_log :
          InvalidLevels(sizing_log[i].entry_price, sizing_log[i].stop_loss)
              => /\ sizing_log[i].result.error = "ValueError"
                 /\ "quantity" \notin DOMAIN sizing_log[i].result
    /\ \A i \in DOMAIN scan_log.attempts :
          ~InvalidLevels(scan_log.attempts[i].order.entry_price,
                         scan_log.attempts[i].order.stop_loss)
    /\ \A i \in DOMAIN order_log :
          ~InvalidLevels(order_log[i].entry_price, order_log[i].stop_loss)
    /\ \A i \in DOMAIN open_trades :
          /\ open_trades[i].order_id \in DOMAIN order_log
          /\ ~InvalidLevels(open_trades[i].entry_price,
                            order_log[open_trades[i].order_id].stop_loss)

\* an entry pass that sized a signal whose stop equals its entry: the sizer
\* raised and nothing was ordered for it
C11_Witness ==
    /\ \E i \in DOMAIN sizing_log :
          /\ InvalidLevels(sizing_log[i].entry_price, sizing_log[i].stop_loss)
          /\ sizing_log[i].result.error = "ValueError"
    /\ scan_log.stage = "entries"
    /\ scan_log.attempts = <<>>

\* C12: a signal the sizer rejects is a fault of that signal only: the
\* other signals of the tick are still sized and the polling loop keeps
\* running.
C12_FaultIsolated ==
    (\E i \in DOMAIN sizing_log : sizing_log[i].result.error # "none")
        => /\ running
           /\ Len(sizing_log) = scan_log.signals

\* an entry pass given two signals that stopped at the first, rejected by
\* the sizer, with the process ended
C12_Divergence ==
    /\ \E i \in DOMAIN sizing_log : sizing_log[i].result.error # "none"
    /\ scan_log.signals = 2
    /\ Len(sizing_log) = 1
    /\ ~running

\* C13: an entry attempt whose place_bracket_order returned no order id
\* gives no OpenTrade and leaves open_trades and the governor as they were:
\* after an entry pass open_trades is what it was (less the trades the
\* monitor pass closed) followed by exactly the trades of the attempts that
\* did get an order id, and the governor is unchanged.
C13_NoOrderIdNoTrade ==
    [][(pc = "monitor" /\ pc' = "idle" /\ scan_log'.stage = "entries") =>
          LET kept == RemoveClosed(open_trades, trades_to_remove)
              got  == SelectSeq(scan_log'.attempts, LAMBDA a : a.order_id # 0)
          IN  /\ risk_manager' = risk_manager
              /\ Len(open_trades') = Len(kept) + Len(got)
              /\ SubSeq(open_trades', 1, Len(kept)) = kept
              /\ \A k \in 1..Len(got) :
                    open_trades'[Len(kept) + k].order_id = got[k].order_id]_vars

\* an entry pass in which a conservative and a mean-reversion order both
\* came back without an order id, with nothing open afterwards
C13_Witness ==
    /\ scan_log.stage = "entries"
    /\ \E i \in DOMAIN scan_log.attempts :
          scan_log.attempts[i].order.ticker = "AAA" /\ scan_log.attempts[i].order_id = 0
    /\ \E i \in DOMAIN scan_log.attempts :
          scan_log.attempts[i].order.ticker = "BBB" /\ scan_log.attempts[i].order_id = 0
    /\ open_trades = <<>>

\* C14: a monitor step whose price read is non-positive (no quote) leaves
\* the trade as it was, in open_trades, issues no sell, records no win or
\* loss and schedules no removal: the status is "open", never "stopped".
C14_NoQuoteNoChange ==
    [][(pc = "monitor" /\ cursor' = cursor + 1 /\ monitor_log' # <<>>
            /\ monitor_log'[1].price <= 0) =>
          /\ monitor_log'[1].result.status = "open"
          /\ open_trades' = open_trades
          /\ risk_manager' = risk_manager
          /\ closed_log' = <<>>
          /\ trades_to_remove' = trades_to_remove]_vars

\* a monitor step without a quote on a trade that is still open after it
C14_Witness ==
    /\ monitor_log # <<>>
    /\ monitor_log[1].price <= 0
    /\ monitor_log[1].result.status = "open"
    /\ MonitoredAfter = monitor_log[1].trade
    /\ closed_log = <<>>

\* the order ids of a list of trades
OrderIds(trades) == {trades[i].order_id : i \in DOMAIN trades}

\* C15: closed is terminal.  A stop or target closing puts the trade among
\* those to remove; at the end of the monitor pass of that tick none of
\* them is in open_trades; a trade in open_trades was there before or is
\* new (order ids are never used twice), so a removed trade never comes
\* back; and only trades that are in open_trades and not yet closed in the
\* tick are monitored, sold or recorded, by a tick or by the end-of-day
\* routine.
C15_ClosedIsTerminal ==
    [][/\ \A i \in DOMAIN closed_log' :
             closed_log'[i].exit_reason \in {"stopped", "target"}
                 => closed_log'[i].order_id \in trades_to_remove'
       /\ (pc = "monitor" /\ pc' = "idle")
             => OrderIds(open_trades') \cap trades_to_remove = {}
       /\ \A id \in OrderIds(open_trades') :
             id \in OrderIds(open_trades) \/ id > Len(order_log)
       /\ \A i \in DOMAIN monitor_log' :
             monitor_log'[i].trade.order_id \in OrderIds(open_trades) \ trades_to_remove
       /\ \A i \in DOMAIN closed_log' :
             closed_log'[i].order_id \in OrderIds(open_trades) \ trades_to_remove]_vars

\* a later tick at work on the second trade after the first one was closed
\* at its target and removed
C15_Witness ==
    /\ pc = "monitor"
    /\ monitor_log # <<>>
    /\ Len(order_log) = 2
    /\ OrderIds(open_trades) = {2}
    /\ trades_to_remove = {}
    /\ risk_manager.daily_wins = 1
    /\ risk_manager.daily_losses = 0

\* C16: every trade that leaves open_trades, stopped, closed at its target
\* or force-closed at the end of the day, is reported to the governor by
\* one record_win or record_loss.
C16_EveryExitReported ==
    \A i \in DOMAIN closed_log : closed_log[i].governor \in {"win", "loss"}

\* the end of a day on which a trade was opened and force-closed, the
\* governor having counted neither a win nor a loss
C16_Divergence ==
    /\ scan_log.stage = "market_close"
    /\ open_trades = <<>>
    /\ \E i \in DOMAIN closed_log :
          closed_log[i].exit_reason = "eod" /\ closed_log[i].governor = "none"
    /\ risk_manager.daily_wins + risk_manager.daily_losses = 0

\* C17: market_close_routine force-closes every trade still in
\* open_trades, whatever its state: for each, in order, one market sell of
\* what is left of the position the entry bought (the code has no partial
\* exit, so the quantity of its bracket order) and one record with exit
\* reason "eod"; afterwards open_trades is empty.
C17_ForceCloseAll ==
    [][scan_log'.stage = "market_close" =>
          /\ open_trades' = <<>>
          /\ Len(closed_log') = Len(open_trades)
          /\ \A i \in DOMAIN open_trades :
                /\ closed_log'[i].order_id = open_trades[i].order_id
                /\ closed_log'[i].exit_reason = "eod"
                /\ closed_log'[i].record.exit_reason = "eod"
                /\ closed_log'[i].sell_qty = order_log[open_trades[i].order_id].qty]_vars

\* the end of a day with a mean-reversion trade open: one sell and one
\* "eod" record for it, the sell of another size than the position
C17_Divergence ==
    /\ scan_log.stage = "market_close"
    /\ open_trades = <<>>
    /\ \E i \in DOMAIN closed_log :
          /\ closed_log[i].exit_reason = "eod"
          /\ closed_log[i].strategy = "meanrev"
          /\ closed_log[i].sell_qty > order_log[closed_log[i].order_id].qty

\* the notifier calls that report the outcome of a trade's step
OutcomeNotices(notices) ==
    SelectSeq(notices, LAMBDA n : n # "notify_system_stopped")

\* C18: a monitor step reports its transition exactly once: a stop gives
\* one record with exit reason "stopped" and one loss notification, a
\* target one record with exit reason "target" and one win notification, a
\* trailing-stop update one stop-update notification and no record, and a
\* step without a transition gives no record and no notification.
C18_OneReportPerTransition ==
    \A i \in DOMAIN monitor_log :
        LET e == monitor_log[i]
        IN  "notices" \in DOMAIN e =>
              /\ e.result.status = "stopped" =>
                    /\ OutcomeNotices(e.notices) = <<"notify_trade_loss">>
                    /\ Len(closed_log) = 1
                    /\ closed_log[1].order_id = e.trade.order_id
                    /\ closed_log[1].record.exit_reason = "stopped"
              /\ e.result.status = "target" =>
                    /\ OutcomeNotices(e.notices) = <<"notify_trade_win">>
                    /\ Len(closed_log) = 1
                    /\ closed_log[1].order_id = e.trade.order_id
                    /\ closed_log[1].record.exit_reason = "target"
              /\ e.result.status = "trail_updated" =>
                    /\ e.notices = <<"notify_stop_updated">>
                    /\ closed_log = <<>>
              /\ e.result.status = "open" =>
                    /\ e.notices = <<>>
                    /\ closed_log = <<>>

\* a trailing-stop update, reported by one stop-update notification
C18_Witness ==
    \E i \in DOMAIN monitor_log :
        /\ "notices" \in DOMAIN monitor_log[i]
        /\ monitor_log[i].result.status = "trail_updated"
        /\ monitor_log[i].notices = <<"notify_stop_updated">>
        /\ MonitoredAfter.stop_loss = monitor_log[i].result.new_stop

\* C19: every record_loss adds one to the loss count and returns true
\* exactly when the count after the call is >= MAX_DAILY_LOSSES, and from
\* then on can_trade() is false: with MAX_DAILY_LOSSES = 2 on a fresh
\* governor the first call returns false, the second true, and a third
\* still true with the count at 3.
C19_RecordLossReturns ==
    [][gov_call'.op = "record_loss" =>
          /\ risk_manager'.daily_losses = risk_manager.daily_losses + 1
          /\ gov_call'.ret <=> (risk_manager'.daily_losses >= MAX_DAILY_LOSSES)
          /\ gov_call'.ret => ~can_trade(risk_manager')
          /\ (risk_manager.daily_losses = 0 /\ MAX_DAILY_LOSSES = 2)
                => (~gov_call'.ret /\ (risk_manager.daily_wins = 0 =>
                                           can_trade(risk_manager')))
          /\ (risk_manager.daily_losses >= 1 /\ MAX_DAILY_LOSSES = 2)
                => gov_call'.ret]_vars

\* the third loss of a day: recorded, returned true, the governor halted
C19_Witness ==
    /\ gov_call.op = "record_loss"
    /\ gov_call.ret
    /\ risk_manager.daily_losses = 3
    /\ ~can_trade(risk_manager)

\* C20: a monitor step with the price above the stop and at or above the
\* target closes the trade with status "target" instead of trailing its
\* stop: one market sell of the whole position the entry bought (the code
\* has no first-leg exit), exit reason "target", and a win recorded on the
\* governor.
C20_TargetCloses ==
    \A i \in DOMAIN monitor_log :
        LET e == monitor_log[i]
        IN  ("notices" \in DOMAIN e /\ e.price > e.trade.stop_loss
                /\ e.price >= e.trade.target) =>
              /\ e.result.status = "target"
              /\ MonitoredAfter.stop_loss = e.trade.stop_loss
              /\ Len(closed_log) = 1
              /\ closed_log[1].exit_reason = "target"
              /\ closed_log[1].governor = "win"
              /\ closed_log[1].sell_qty = order_log[e.trade.order_id].qty

\* a mean-reversion trade closed at its target, a win recorded, the sell of
\* another size than the position
C20_Divergence ==
    \E i \in DOMAIN monitor_log :
        LET e == monitor_log[i]
        IN  /\ "notices" \in DOMAIN e
            /\ e.trade.strategy = "meanrev"
            /\ e.price >= e.trade.target
            /\ e.result.status = "target"
            /\ Len(closed_log) = 1
            /\ closed_log[1].governor = "win"
            /\ closed_log[1].sell_qty # order_log[e.trade.order_id].qty

\* C22: every trade in open_trades holds a quantity still to be sold that
\* is between 0 and the total quantity its entry bought.  (OpenTrade has
\* one quantity field, the one every exit sells, and no tp1_hit.)
C22_QuantityWithinTotal ==
    \A i \in DOMAIN open_trades :
        /\ 0 <= open_trades[i].quantity
        /\ open_trades[i].quantity <= order_log[open_trades[i].order_id].qty

\* an open mean-reversion trade holding a larger quantity than was bought
C22_Divergence ==
    \E i \in DOMAIN open_trades :
        /\ open_trades[i].strategy = "meanrev"
        /\ open_trades[i].quantity > order_log[open_trades[i].order_id].qty

\* C23: a successful mean-reversion entry sized at total_quantity leaves
\* an OpenTrade whose quantity for the final exit is
\* total_quantity - max(1, total_quantity \div 2), the first leg being
\* max(1, total_quantity \div 2); a conservative entry orders the sized
\* quantity as one bracket and its OpenTrade holds all of it.
C23_StagedEntrySplit ==
    \A i \in DOMAIN scan_log.attempts :
        LET a == scan_log.attempts[i]
            total == sizing_log[i].result.quantity
            tp1_qty == Max(1, total \div 2)
        IN  a.order_id # 0 =>
              \E j \in DOMAIN open_trades :
                  /\ open_trades[j].order_id = a.order_id
                  /\ open_trades[j].strategy = "conservative" =>
                        (a.order.qty = total /\ open_trades[j].quantity = total)
                  /\ open_trades[j].strategy = "meanrev" =>
                        open_trades[j].quantity = total - tp1_qty

\* a mean-reversion entry: one bracket order for the whole sized quantity
\* at the final target, and an OpenTrade whose quantity is neither leg
C23_Divergence ==
    \E i \in DOMAIN scan_log.attempts :
        LET a == scan_log.attempts[i]
            total == sizing_log[i].result.quantity
        IN  /\ a.order_id # 0
            /\ a.order.qty = total
            /\ \E j \in DOMAIN open_trades :
                  /\ open_trades[j].order_id = a.order_id
                  /\ open_trades[j].strategy = "meanrev"
                  /\ a.order.target = open_trades[j].target
                  /\ open_trades[j].quantity # total - Max(1, total \div 2)
                  /\ open_trades[j].quantity # total

\* C24: once a mean-reversion trade has seen its first target (its stop
\* stands at or above the entry price, within one trail step of a price that
\* reached the first target), a tick with 0 < price <= stop_loss closes it
\* as "stopped" and sells only what remains after the first leg:
\* total - max(1, total \div 2) shares.
C24_StopAfterFirstTargetSellsRest ==
    \A i \in DOMAIN monitor_log :
        LET e == monitor_log[i]
            total == order_log[e.trade.order_id].qty
        IN  ("notices" \in DOMAIN e /\ e.trade.strategy = "meanrev"
                /\ e.trade.stop_loss >= e.trade.entry_price
                /\ e.trade.stop_loss + e.trade.trail_step >= FirstTarget(e.trade)
                /\ 0 < e.price /\ e.price <= e.trade.stop_loss) =>
              /\ e.result.status = "stopped"
              /\ Len(closed_log) = 1
              /\ closed_log[1].exit_reason = "stopped"
              /\ closed_log[1].sell_qty = total - Max(1, total \div 2)

\* a mean-reversion trade stopped out above its entry after the first target:
\* the sell is for the quantity field of the trade, not for the second leg
C24_Divergence ==
    \E i \in DOMAIN monitor_log :
        LET e == monitor_log[i]
            total == order_log[e.trade.order_id].qty
        IN  /\ "notices" \in DOMAIN e
            /\ e.trade.strategy = "meanrev"
            /\ e.trade.stop_loss >= e.trade.entry_price
            /\ e.trade.stop_loss + e.trade.trail_step >= FirstTarget(e.trade)
            /\ 0 < e.price /\ e.price <= e.trade.stop_loss
            /\ e.result.status = "stopped"
            /\ Len(closed_log) = 1
            /\ closed_log[1].sell_qty = e.trade.quantity
            /\ closed_log[1].sell_qty > total - Max(1, total \div 2)

\* C25: every sizing call of a scan uses a balance read from the broker
\* after the previous entry was placed: a scan that sizes n entries has read
\* the account at least n times.
C25_BalanceReadPerSizing ==
    scan_log.stage = "entries" => Len(sizing_log) <= scan_log.account_reads

\* two entries placed in one scan, both sized with the balance of the one
\* account read of that scan
C25_Divergence ==
    /\ scan_log.stage = "entries"
    /\ scan_log.account_reads = 1
    /\ Len(scan_log.attempts) = 2
    /\ \A i \in 1..2 : scan_log.attempts[i].order_id # 0
    /\ Len(sizing_log) = 2
    /\ sizing_log[1].balance = sizing_log[2].balance

\* C26: the R of every stop or target exit, as reported and as passed to
\* the governor, is (exit price - entry price) / (entry price - the stop
\* the trade was opened with), to the hundredth, also when trailing has
\* moved the stop since.
C26_RFromInitialRisk ==
    \A i \in DOMAIN closed_log :
        LET c == closed_log[i]
            entry == order_log[c.order_id].entry_price
            initial_risk == entry - order_log[c.order_id].stop_loss
            gap == c.r * initial_risk - 100 * (c.exit_price - entry)
        IN  c.exit_reason \in {"stopped", "target"} =>
              /\ 2 * gap <= initial_risk
              /\ 2 * gap >= -initial_risk
              /\ c.record.r_achieved = c.r

\* a trade closed after its stop was trailed to or above the entry: the R
\* handed to the governor is 0 although the exit was not at the entry
C26_Divergence ==
    \E i \in DOMAIN closed_log :
        LET c == closed_log[i]
        IN  /\ c.exit_reason \in {"stopped", "target"}
            /\ c.stop_loss > order_log[c.order_id].stop_loss
            /\ c.stop_loss >= order_log[c.order_id].entry_price
            /\ c.exit_price # order_log[c.order_id].entry_price
            /\ c.governor # "none"
            /\ c.r = 0

\* C27: the order of a scan tick.  The monitor pass is entered only from
\* the gate, with the governor allowing trading and the cursor on the first
\* trade; each monitor step takes the trade at the cursor and moves the
\* cursor one on, without touching the list's length or placing an order;
\* orders are placed only once the cursor is past the last trade, and that
\* step ends the tick, so a trade opened in a tick is not monitored before
\* the gate of a later tick.
C27_TickOrder ==
    [][/\ (pc = "idle" /\ pc' = "monitor") =>
            /\ can_trade(risk_manager)
            /\ cursor' = 1
            /\ monitor_log' = <<>>
            /\ UNCHANGED <<open_trades, order_log>>
       /\ (pc = "monitor" /\ pc' = "monitor") =>
            /\ cursor <= Len(open_trades)
            /\ cursor' = cursor + 1
            /\ Len(monitor_log') = 1
            /\ monitor_log'[1].trade = open_trades[cursor]
            /\ Len(open_trades') = Len(open_trades)
            /\ \A i \in DOMAIN open_trades :
                  i # cursor => open_trades'[i] = open_trades[i]
            /\ order_log' = order_log
       /\ (pc = "monitor" /\ pc' = "idle") =>
            /\ cursor = Len(open_trades) + 1
            /\ monitor_log' = <<>>
       /\ order_log' # order_log => (pc = "monitor" /\ pc' = "idle")
       /\ (pc = "idle" /\ pc' = "idle") => open_trades' \in {open_trades, <<>>}
      ]_vars

\* the end of a tick in which the trade of an earlier tick was monitored and
\* kept, and a second trade was opened after it
C27_Witness ==
    /\ pc = "idle"
    /\ scan_log.stage = "entries"
    /\ Len(open_trades) = 2
    /\ open_trades[1].order_id = 1
    /\ open_trades[2].order_id = 2
    /\ Len(scan_log.attempts) = 1
    /\ scan_log.attempts[1].order_id = 2

\* C28: reset() leaves the governor with no wins, no losses, no PnL, no R
\* and not stopped, whatever it was before, so that can_trade() is true
\* right after it; no other call makes daily_wins or daily_losses smaller.
C28_ResetToZero ==
    [][/\ gov_call'.op = "reset" =>
            /\ risk_manager' = [daily_losses |-> 0, daily_wins |-> 0,
                                daily_pnl |-> 0, daily_r |-> 0,
                                is_stopped |-> FALSE]
            /\ can_trade(risk_manager')
       /\ gov_call'.op # "reset" =>
            /\ risk_manager'.daily_wins >= risk_manager.daily_wins
            /\ risk_manager'.daily_losses >= risk_manager.daily_losses
      ]_vars

\* reset() called on a halted governor that had wins, losses, PnL and R
C28_Witness ==
    /\ gov_call.op = "reset"
    /\ "before" \in DOMAIN gov_call
    /\ gov_call.before.is_stopped
    /\ gov_call.before.daily_wins > 0
    /\ gov_call.before.daily_losses >= MAX_DAILY_LOSSES
    /\ gov_call.before.daily_pnl # 0
    /\ gov_call.before.daily_r # 0
    /\ risk_manager.daily_wins = 0
    /\ risk_manager.daily_losses = 0
    /\ can_trade(risk_manager)

\* C29: record_win(pnl, r) adds one to daily_wins, pnl to daily_pnl and r to
\* daily_r, and leaves daily_losses and is_stopped as they were, in every
\* state of the governor, a halted one included.
C29_RecordWinFrame ==
    [][gov_call'.op = "record_win" =>
          /\ risk_manager'.daily_wins = risk_manager.daily_wins + 1
          /\ \E o \in WinOutcomes :
                /\ risk_manager'.daily_pnl = risk_manager.daily_pnl + o.pnl
                /\ risk_manager'.daily_r = risk_manager.daily_r + o.r
          /\ risk_manager'.daily_losses = risk_manager.daily_losses
          /\ risk_manager'.is_stopped = risk_manager.is_stopped
      ]_vars

\* a second win recorded on a governor that two losses have halted
C29_Witness ==
    /\ gov_call.op = "record_win"
    /\ risk_manager.daily_wins = 2
    /\ risk_manager.daily_losses = MAX_DAILY_LOSSES
    /\ risk_manager.is_stopped
    /\ risk_manager.daily_pnl = 3000 + 9000 - 3000

C31_LossOnlyWhenNegative ==
    \A i \in DOMAIN closed_log :
        LET c == closed_log[i]
        IN  /\ c.governor = "loss" => (c.record.pnl < 0 /\ c.record.outcome = "loss")
            /\ c.governor = "win" => (c.record.pnl > 0 /\ c.record.outcome = "win")

\* a trade stopped out at a trailed stop above its entry: recorded as a win,
\* counted as a loss by the governor
C31_Divergence ==
    \E i \in DOMAIN closed_log :
        LET c == closed_log[i]
        IN  /\ c.exit_reason = "stopped"
            /\ c.exit_price > order_log[c.order_id].entry_price
            /\ c.record.pnl > 0
            /\ c.record.outcome = "win"
            /\ c.governor = "loss"
            /\ gov_call.op = "record_loss"

\* C32: every scan tick with the market open monitors every open trade,
\* also when the governor is halted or the daily universe is empty: no tick
\* ends at the governor gate or at the universe gate while trades are open.
C32_MonitoredWhileGated ==
    scan_log.stage \in {"halted", "no_stocks"} => open_trades = <<>>

\* a scan tick ended by the governor gate with a trade open: its price was
\* not read
C32_Divergence ==
    /\ scan_log.stage = "halted"
    /\ ~can_trade(risk_manager)
    /\ open_trades # <<>>
    /\ monitor_log = <<>>
    /\ closed_log = <<>>

\* C33: a closing by market sell leaves no leg of the trade's entry
\* bracket live: the closing cancels the bracket's orders at the broker.
C33_BracketLegsCancelled ==
    \A i \in DOMAIN closed_log :
        \E k \in DOMAIN closed_log[i].broker_calls :
            closed_log[i].broker_calls[k] = "cancel_order"

\* a trade closed by an accepted market sell, its bracket placed with a
\* stop-loss and a take-profit leg for the same shares, and nothing but the
\* sell sent to the broker
C33_Divergence ==
    \E i \in DOMAIN closed_log :
        LET c == closed_log[i]
        IN  /\ c.sell_ok
            /\ c.broker_calls = <<"place_market_sell">>
            /\ order_log[c.order_id].qty > 0
            /\ order_log[c.order_id].stop_loss < order_log[c.order_id].target

\* the turns of the logged monitor pass that sent notify_system_stopped
HaltNotices ==
    {i \in DOMAIN monitor_log :
        /\ "notices" \in DOMAIN monitor_log[i]
        /\ \E k \in DOMAIN monitor_log[i].notices :
              monitor_log[i].notices[k] = "notify_system_stopped"}

\* C34: notify_system_stopped is sent at most once between two resets of the
\* governor, also when several trades are stopped out in one monitor pass.
\* (A halted governor ends every later tick at its gate, so the passes that
\* can send it twice are those in which the halt happens.)
C34_HaltNotifiedOnce ==
    Cardinality(HaltNotices) <= 1

\* three trades stopped out in one pass: the second loss halts the governor
\* and is notified, the third is notified again
C34_Divergence ==
    /\ Len(monitor_log) = 3
    /\ \A i \in 1..3 : monitor_log[i].result.status = "stopped"
    /\ HaltNotices = {2, 3}
    /\ risk_manager.daily_losses = 3
    /\ risk_manager.is_stopped

\* C35: every trade added to open_trades is eventually removed from it, as
\* long as the scheduler keeps running the scan and close routines (the main
\* loop has not died).
C35_EventuallyRemoved ==
    \A id \in 1..MaxOrders :
        (id \in OrderIds(open_trades)) ~> (id \notin OrderIds(open_trades) \/ ~running)

\* the end-of-day routine has just emptied a list that held a trade no scan
\* had closed
C35_Witness ==
    /\ scan_log.stage = "market_close"
    /\ open_trades = <<>>
    /\ Len(closed_log) >= 1
    /\ \A i \in DOMAIN closed_log : closed_log[i].exit_reason = "eod"
    /\ running

\* C36: in every state of the governor, is_stopped is true exactly when
\* daily_losses >= MAX_DAILY_LOSSES, and get_summary reports
\* total_trades = wins + losses.
C36_StoppedIffAtLimit ==
    /\ risk_manager.is_stopped <=> risk_manager.daily_losses >= MAX_DAILY_LOSSES
    /\ get_summary(risk_manager).total_trades
          = get_summary(risk_manager).wins + get_summary(risk_manager).losses
    /\ get_summary(risk_manager).wins = risk_manager.daily_wins
    /\ get_summary(risk_manager).losses = risk_manager.daily_losses

\* the loss that reaches the limit, on a governor that had a win
C36_Witness ==
    /\ gov_call.op = "record_loss"
    /\ gov_call.ret
    /\ risk_manager.daily_losses = MAX_DAILY_LOSSES
    /\ risk_manager.daily_wins = 1
    /\ risk_manager.is_stopped
    /\ get_summary(risk_manager).total_trades = MAX_DAILY_LOSSES + 1

\* C37: open_trades holds at most one trade per ticker.
C37_OneTradePerTicker ==
    \A i, j \in DOMAIN open_trades :
        i # j => open_trades[i].ticker # open_trades[j].ticker

\* the ranging stock entered on two ticks: two mean-reversion trades of the
\* same ticker open together, each with its own bracket order
C37_Divergence ==
    /\ Len(open_trades) = 2
    /\ open_trades[1].ticker = "BBB"
    /\ open_trades[2].ticker = "BBB"
    /\ open_trades[1].order_id # open_trades[2].order_id
    /\ Len(scan_log.attempts) = 1
    /\ scan_log.attempts[1].order_id = open_trades[2].order_id

\* C38: a conservative trade (stop_loss < entry_price <= trail_stop <
\* target) has its stop moved to trail_stop, with one stop-update
\* notification, on the first tick whose price p has stop_loss < p < target,
\* R >= 1 and p > trail_stop; a trade whose stop has been moved is never
\* moved again.
C38_ConservativeTrailOnce ==
    \A i \in DOMAIN monitor_log :
        LET e == monitor_log[i]
            initial_stop == order_log[e.trade.order_id].stop_loss
        IN  ("notices" \in DOMAIN e /\ e.trade.strategy = "conservative") =>
              /\ (/\ e.trade.stop_loss = initial_stop
                  /\ e.trade.stop_loss < e.price /\ e.price < e.trade.target
                  /\ e.price - e.trade.entry_price >= e.trade.entry_price - initial_stop
                  /\ e.price > e.trade.trail_stop) =>
                    /\ e.result.status = "trail_updated"
                    /\ MonitoredAfter.stop_loss = e.trade.trail_stop
                    /\ e.notices = <<"notify_stop_updated">>
              /\ e.result.status = "trail_updated" =>
                    e.trade.stop_loss = initial_stop
              /\ e.trade.stop_loss # initial_stop =>
                    /\ e.trade.stop_loss = e.trade.trail_stop
                    /\ MonitoredAfter.stop_loss = e.trade.trail_stop
                    /\ e.notices \in {<<>>, <<"notify_trade_loss">>,
                                      <<"notify_trade_loss", "notify_system_stopped">>,
                                      <<"notify_trade_win">>}

\* a conservative trade whose stop was moved to trail_stop on an earlier
\* tick, quoted again above trail_stop and under the target: left as it is
C38_Witness ==
    \E i \in DOMAIN monitor_log :
        LET e == monitor_log[i]
        IN  /\ "notices" \in DOMAIN e
            /\ e.trade.strategy = "conservative"
            /\ e.trade.stop_loss = e.trade.trail_stop
            /\ e.trade.stop_loss > order_log[e.trade.order_id].stop_loss
            /\ e.price > e.trade.trail_stop /\ e.price < e.trade.target
            /\ e.price - e.trade.entry_price
                  >= e.trade.entry_price - order_log[e.trade.order_id].stop_loss
            /\ e.result.status = "open"
            /\ e.notices = <<>>

\* C39: the capacity limits of the two strategies are independent: on a
\* tick past the gates whose market holds a valid conservative signal, with
\* the governor allowing trading and every order accepted, a conservative
\* trade is open afterwards (the one already open, or the one entered now),
\* however many mean-reversion trades are open.
C39_ConservativeIndependent ==
    (/\ scan_log.stage \in {"entries", "meanrev_full"}
     /\ "conservative_offered" \in DOMAIN scan_log
     /\ scan_log.conservative_offered > 0
     /\ can_trade(risk_manager)) =>
        CountStrategy(open_trades, "conservative") = 1

\* three mean-reversion trades open, none conservative, the governor allowing
\* trading, a conservative signal on offer: the scan returned before the
\* selector was run
C39_Divergence ==
    /\ scan_log.stage = "meanrev_full"
    /\ "conservative_offered" \in DOMAIN scan_log
    /\ scan_log.conservative_offered > 0
    /\ scan_log.attempts = <<>>
    /\ can_trade(risk_manager)
    /\ CountStrategy(open_trades, "meanrev") = 3
    /\ CountStrategy(open_trades, "conservative") = 0

\* C40: when get_account returns nothing on a scan tick, the scan attempts
\* no entry: no sizing call, no order, and it leaves open_trades (as the
\* monitor pass of that tick left it) and the governor unchanged; the
\* monitor pass has by then taken every open trade.
C40_NoAccountNoEntry ==
    [][(pc = "monitor" /\ pc' = "idle") =>
          LET before == RemoveClosed(open_trades, trades_to_remove)
          IN  /\ cursor = Len(open_trades) + 1
              /\ \A market \in Markets, accept \in [AttemptsPerScan -> BOOLEAN] :
                    LET st == scan_entries(before, risk_manager, order_log,
                                           daily_stocks, [ok |-> FALSE, balance |-> 0],
                                           market, accept)
                    IN  /\ st.stage \in {"no_account", "meanrev_full"}
                        /\ st.attempts = <<>>
                        /\ st.sizing = <<>>
                        /\ st.trades = before
                        /\ st.orders = order_log
                        /\ ~st.crashed
              /\ scan_log'.stage = "no_account" =>
                    /\ scan_log'.attempts = <<>>
                    /\ sizing_log' = <<>>
                    /\ open_trades' = before
                    /\ UNCHANGED <<order_log, risk_manager, running>>
      ]_vars

\* the end of a tick on which the account could not be read, with a trade
\* the monitor pass of that tick took and kept
C40_Witness ==
    /\ scan_log.stage = "no_account"
    /\ scan_log.account_reads = 1
    /\ pc = "idle"
    /\ running
    /\ open_trades # <<>>
    /\ sizing_log = <<>>

=============================================================================
